---- MODULE Spec2Model ----
(***************************************************************************)
(* Hotel reservation system of src/main.py: the singleton availability     *)
(* ledger, the room factory, the service decorators, the pricing           *)
(* strategies, the reservation notifier and create_reservation.            *)
(*                                                                         *)
(* Strings that the code builds by concatenation (descriptions, messages)  *)
(* are sequences of fragments: "" is << >> and + is \o.                    *)
(* Prices are integers: for every cost the decorators can produce here     *)
(* (300000 + 50000 a + 70000 b) the float products cost * 1.5, cost * 0.8  *)
(* and cost * 0.9 are integral and equal to cost * 15 / 10, cost * 8 / 10  *)
(* and cost * 9 / 10.                                                      *)
(***************************************************************************)
EXTENDS Integers, Sequences, FiniteSets

VARIABLES
    available_rooms,  \* RoomAvailabilityManager._instance.available_rooms
    observers,        \* hotel_system.notifier.observers
    last,             \* the last completed call: operation, arguments, result
    stdout,           \* the lines User.update printed during the last call
    booked,           \* per room type, how many book_room calls returned True
    pc,               \* per worker thread, its position inside book_room
    arg,              \* per worker thread, the room_type of its book_room call
    rejected,         \* the room types create_reservation has rejected so far
    registered        \* the arguments of the add_observer calls, in call order

vars == <<available_rooms, observers, last, stdout, booked, pc, arg,
          rejected, registered>>

-----------------------------------------------------------------------------
(* Bounds and input sets *)

MaxObservers == 3
MaxServices == 2
NumThreads == 2

KnownTypes == {"standard", "suite", "deluxe"}
UnknownTypes == {"penthouse"}
RoomTypes == KnownTypes \cup UnknownTypes

UserNames == {"ana", "luis"}
ServiceNames == {"breakfast", "airport_transport", "spa"}
KnownServices == {"breakfast", "airport_transport"}
Strategies == {"None", "HighSeasonStrategy", "LowSeasonStrategy",
               "LongStayDiscountStrategy"}

SeqsUpTo(S, n) == UNION {[1..k -> S] : k \in 0..n}
ServiceLists == SeqsUpTo(ServiceNames, MaxServices)

-----------------------------------------------------------------------------
(* RoomAvailabilityManager *)

InitialRooms == [standard |-> 10, suite |-> 5, deluxe |-> 3]

\* Variant: the ledger is assigned on every construction.
RoomAvailabilityManager_reset(instance) == <<InitialRooms>>

\* RoomAvailabilityManager(): __new__ over cls._instance, which is << >> for
\* None and <<available_rooms>> once the instance exists
RoomAvailabilityManager(instance) ==
    IF instance = << >> THEN <<InitialRooms>> ELSE instance

\* dict.get(key, default)
Get(d, key, default) == IF key \in DOMAIN d THEN d[key] ELSE default

\* Variant: the comparison is >= 0 instead of > 0.
check_availability_ge(rooms, room_type) ==
    Get(rooms, room_type, 0) > 0
        \/ (room_type \in DOMAIN rooms /\ rooms[room_type] = 0)

\* Variant: the default of the lookup is 1 instead of 0.
check_availability_default1(rooms, room_type) ==
    Get(rooms, room_type, 1) > 0

check_availability(rooms, room_type) ==
    Get(rooms, room_type, 0) > 0

\* Variant: the decrement is missing.
book_room_nodec(rooms, room_type) ==
    IF check_availability(rooms, room_type)
    THEN [available_rooms |-> rooms, ret |-> TRUE]
    ELSE [available_rooms |-> rooms, ret |-> FALSE]

\* Variant: the final return is True.
book_room_true(rooms, room_type) ==
    IF check_availability(rooms, room_type)
    THEN [available_rooms |-> [rooms EXCEPT ![room_type] = @ - 1], ret |-> TRUE]
    ELSE [available_rooms |-> rooms, ret |-> TRUE]

book_room(rooms, room_type) ==
    IF check_availability(rooms, room_type)
    THEN [available_rooms |-> [rooms EXCEPT ![room_type] = @ - 1], ret |-> TRUE]
    ELSE [available_rooms |-> rooms, ret |-> FALSE]

-----------------------------------------------------------------------------
(* Room, RoomFactory *)

ValueError == [class |-> "ValueError",
               args |-> <<"Tipo de habitación no disponible.">>]

create_room(room_type) ==
    CASE room_type = "standard" -> [class |-> "StandardRoom"]
      [] room_type = "suite"    -> [class |-> "SuiteRoom"]
      [] room_type = "deluxe"   -> [class |-> "DeluxeRoom"]
      [] OTHER                  -> ValueError

room_description(room) ==
    CASE room.class = "StandardRoom" -> <<"Habitación Estándar">>
      [] room.class = "SuiteRoom"    -> <<"Habitación Suite">>
      [] room.class = "DeluxeRoom"   -> <<"Habitación Deluxe">>

-----------------------------------------------------------------------------
(* User, ReservationNotifier *)

User(name) == [name |-> name]

\* User.update: one printed line per call
update(observer, message) ==
    <<"Notificación para ", observer.name, ": ">> \o message

\* Variant: an observer already registered is not appended again.
add_observer_unique(obs, observer) ==
    IF \E i \in DOMAIN obs : obs[i] = observer THEN obs ELSE Append(obs, observer)

add_observer(obs, observer) == Append(obs, observer)

\* Variant: the loop runs over the observers in reverse.
notify_all_reversed(obs, message) ==
    [i \in 1..Len(obs) |->
        [to |-> obs[Len(obs) + 1 - i],
         line |-> update(obs[Len(obs) + 1 - i], message)]]

\* the deliveries of one broadcast, in the order the loop makes them
notify_all(obs, message) ==
    [i \in 1..Len(obs) |-> [to |-> obs[i], line |-> update(obs[i], message)]]

-----------------------------------------------------------------------------
(* Reservation and its decorators *)

RECURSIVE Join(_)
\* ", ".join(strs)
Join(strs) ==
    IF strs = << >> THEN << >>
    ELSE IF Len(strs) = 1 THEN <<strs[1]>>
    ELSE <<strs[1], ", ">> \o Join(Tail(strs))

Reservation(room) ==
    [class |-> "Reservation", room |-> room, services |-> << >>]

BreakfastDecorator(reservation) ==
    [class |-> "BreakfastDecorator", reservation |-> reservation]

AirportTransportDecorator(reservation) ==
    [class |-> "AirportTransportDecorator", reservation |-> reservation]

RECURSIVE cost(_)
cost(r) ==
    CASE r.class = "Reservation" -> 300000
      [] r.class = "BreakfastDecorator" -> cost(r.reservation) + 50000
      [] r.class = "AirportTransportDecorator" -> cost(r.reservation) + 70000

RECURSIVE description(_)
description(r) ==
    CASE r.class = "Reservation" ->
            IF r.services # << >>
            THEN room_description(r.room) \o <<" con ">> \o Join(r.services)
            ELSE << >>
      [] r.class = "BreakfastDecorator" ->
            description(r.reservation) \o <<", desayuno incluido">>
      [] r.class = "AirportTransportDecorator" ->
            description(r.reservation) \o <<", transporte al aeropuerto">>

-----------------------------------------------------------------------------
(* PricingStrategy *)

calculate_price(strategy, base_price) ==
    CASE strategy = "HighSeasonStrategy"       -> (base_price * 15) \div 10
      [] strategy = "LowSeasonStrategy"        -> (base_price * 8) \div 10
      [] strategy = "LongStayDiscountStrategy" -> (base_price * 9) \div 10

-----------------------------------------------------------------------------
(* HotelReservationSystem.create_reservation *)

\* Variant: the first test is missing, so any other name adds breakfast.
RECURSIVE decorate_unknown_breakfast(_, _)
decorate_unknown_breakfast(reservation, services) ==
    IF services = << >> THEN reservation
    ELSE decorate_unknown_breakfast(
            IF Head(services) = "airport_transport"
            THEN AirportTransportDecorator(reservation)
            ELSE BreakfastDecorator(reservation),
            Tail(services))

\* Variant: the layers are applied from the last service to the first.
RECURSIVE decorate_reversed(_, _)
decorate_reversed(reservation, services) ==
    IF services = << >> THEN reservation
    ELSE LET inner == decorate_reversed(reservation, Tail(services))
         IN  IF Head(services) = "breakfast"
             THEN BreakfastDecorator(inner)
             ELSE IF Head(services) = "airport_transport"
             THEN AirportTransportDecorator(inner)
             ELSE inner

RECURSIVE decorate(_, _)
\* the loop over services: one layer per known name, in list order
decorate(reservation, services) ==
    IF services = << >> THEN reservation
    ELSE decorate(
            IF Head(services) = "breakfast"
            THEN BreakfastDecorator(reservation)
            ELSE IF Head(services) = "airport_transport"
            THEN AirportTransportDecorator(reservation)
            ELSE reservation,
            Tail(services))

\* Variant: the strategy is applied to the base cost, the charges added after.
price_base_only(pricing_strategy, reservation) ==
    IF pricing_strategy # "None"
    THEN calculate_price(pricing_strategy, 300000) + (cost(reservation) - 300000)
    ELSE cost(reservation)

\* final_price
price(pricing_strategy, reservation) ==
    IF pricing_strategy # "None"
    THEN calculate_price(pricing_strategy, cost(reservation))
    ELSE cost(reservation)

confirmation(user, reservation, final_price) ==
    <<"Reserva confirmada para ", user.name, ": ">> \o description(reservation)
        \o <<". Precio: ", final_price, " COP.">>

HTTPException(status_code, detail) ==
    [class |-> "HTTPException", status_code |-> status_code, detail |-> detail]

Rejected(rooms, room_type) ==
    [available_rooms |-> rooms,
     booked |-> FALSE,
     raised |-> HTTPException(400,
        <<"No hay disponibilidad para el tipo de habitación: ", room_type, ".">>),
     room |-> << >>,
     delivered |-> << >>]

\* Variant: the broadcast also happens on the rejection path.
create_reservation_notify_rejected(rooms, obs, user, room_type, services, pricing_strategy) ==
    LET b == book_room(rooms, room_type) IN
    IF b.ret
    THEN LET room == create_room(room_type) IN
         IF room = ValueError
         THEN [available_rooms |-> b.available_rooms, booked |-> TRUE,
               raised |-> ValueError, room |-> << >>, delivered |-> << >>]
         ELSE LET reservation == decorate(Reservation(room), services)
                  final_price == price(pricing_strategy, reservation)
              IN  [available_rooms |-> b.available_rooms, booked |-> TRUE,
                   raised |-> << >>, room |-> <<room>>,
                   reservation |-> reservation, final_price |-> final_price,
                   delivered |-> notify_all(obs,
                        confirmation(user, reservation, final_price))]
    ELSE [Rejected(b.available_rooms, room_type) EXCEPT
            !.delivered = notify_all(obs, <<"rechazada">>)]

\* The whole call: the ledger after it, what it raised (<< >> when it returned),
\* the room it built, the pair it returned, and the lines it had printed.
create_reservation(rooms, obs, user, room_type, services, pricing_strategy) ==
    LET b == book_room(rooms, room_type) IN
    IF b.ret
    THEN LET room == create_room(room_type) IN
         IF room = ValueError
         THEN [available_rooms |-> b.available_rooms, booked |-> TRUE,
               raised |-> ValueError, room |-> << >>, delivered |-> << >>]
         ELSE LET reservation == decorate(Reservation(room), services)
                  final_price == price(pricing_strategy, reservation)
              IN  [available_rooms |-> b.available_rooms, booked |-> TRUE,
                   raised |-> << >>, room |-> <<room>>,
                   reservation |-> reservation, final_price |-> final_price,
                   delivered |-> notify_all(obs,
                        confirmation(user, reservation, final_price))]
    ELSE Rejected(b.available_rooms, room_type)

-----------------------------------------------------------------------------
(* POST /reservations/ *)

\* the strategy object chosen for the request's pricing_strategy string
strategy_of(name) ==
    CASE name = "high_season" -> "HighSeasonStrategy"
      [] name = "low_season"  -> "LowSeasonStrategy"
      [] name = "long_stay"   -> "LongStayDiscountStrategy"
      [] OTHER                -> "None"

\* Variant: the user is registered after the reservation has been created.
make_reservation_register_after(rooms, obs, request) ==
    LET user == User(request.user_name)
        r == create_reservation(rooms, obs, user, request.room_type,
                request.services, strategy_of(request.pricing_strategy))
    IN  [available_rooms |-> r.available_rooms,
         observers |-> IF r.raised = << >> THEN add_observer(obs, user) ELSE obs,
         booked |-> r.booked, raised |-> r.raised, delivered |-> r.delivered,
         response |->
            IF r.raised = << >>
            THEN <<[message |-> <<"Reserva confirmada para ", user.name,
                                  ". Descripción: ">> \o description(r.reservation),
                    final_price |-> r.final_price]>>
            ELSE << >>]

\* The whole request: the ledger and the observers after it, the exception it
\* re-raised (<< >> when it answered), its response and the lines printed.
make_reservation(rooms, obs, request) ==
    LET user == User(request.user_name)
        registered_obs == add_observer(obs, user)
        r == create_reservation(rooms, registered_obs, user, request.room_type,
                request.services, strategy_of(request.pricing_strategy))
    IN  [available_rooms |-> r.available_rooms,
         observers |-> registered_obs,
         booked |-> r.booked, raised |-> r.raised, delivered |-> r.delivered,
         response |->
            IF r.raised = << >>
            THEN <<[message |-> <<"Reserva confirmada para ", user.name,
                                  ". Descripción: ">> \o description(r.reservation),
                    final_price |-> r.final_price]>>
            ELSE << >>]

-----------------------------------------------------------------------------
(* State machine: sequential calls *)

Threads == 1..NumThreads

Init ==
    /\ available_rooms = RoomAvailabilityManager(<< >>)[1]
    /\ observers = << >>
    /\ last = [op |-> "init"]
    /\ stdout = << >>
    /\ booked = [t \in KnownTypes |-> 0]
    /\ pc = [i \in Threads |-> "idle"]
    /\ arg = [i \in Threads |-> "standard"]
    /\ rejected = {}
    /\ registered = << >>

Count(b, room_type, hit) ==
    IF hit /\ room_type \in DOMAIN b THEN [b EXCEPT ![room_type] = @ + 1] ELSE b

CheckAvailability(room_type) ==
    /\ last' = [op |-> "check_availability", room_type |-> room_type,
                ret |-> check_availability(available_rooms, room_type)]
    /\ stdout' = << >>
    /\ UNCHANGED <<available_rooms, observers, booked, pc, arg, rejected, registered>>

BookRoom(room_type) ==
    LET b == book_room(available_rooms, room_type) IN
    /\ available_rooms' = b.available_rooms
    /\ last' = [op |-> "book_room", room_type |-> room_type, ret |-> b.ret]
    /\ stdout' = << >>
    /\ booked' = Count(booked, room_type, b.ret)
    /\ UNCHANGED <<observers, pc, arg, rejected, registered>>

\* GET /availability/{room_type}
GetAvailability(room_type) ==
    /\ last' = [op |-> "GET /availability", room_type |-> room_type,
                ret |-> [room_type |-> room_type,
                         available |-> check_availability(available_rooms, room_type)]]
    /\ stdout' = << >>
    /\ UNCHANGED <<available_rooms, observers, booked, pc, arg, rejected, registered>>

\* Each entry of observers is one registered User object (make_reservation
\* builds a fresh one per registration); two entries may carry the same name.
AddObserver(name) ==
    /\ Len(observers) < MaxObservers
    /\ observers' = add_observer(observers, User(name))
    /\ last' = [op |-> "add_observer", observer |-> User(name)]
    /\ stdout' = << >>
    /\ registered' = Append(registered, User(name))
    /\ UNCHANGED <<available_rooms, booked, pc, arg, rejected>>

CreateReservation(name, room_type, services, pricing_strategy) ==
    LET r == create_reservation(available_rooms, observers, User(name),
                                room_type, services, pricing_strategy) IN
    /\ available_rooms' = r.available_rooms
    /\ last' = [op |-> "create_reservation", user |-> User(name),
                room_type |-> room_type, services |-> services,
                pricing_strategy |-> pricing_strategy,
                raised |-> r.raised, room |-> r.room,
                ret |-> IF r.raised = << >>
                        THEN <<r.reservation, r.final_price>>
                        ELSE << >>]
    /\ stdout' = r.delivered
    /\ booked' = Count(booked, room_type, r.booked)
    /\ rejected' = IF r.booked THEN rejected ELSE rejected \cup {room_type}
    /\ UNCHANGED <<observers, pc, arg, registered>>

\* RoomAvailabilityManager() once more, the instance existing
NewManager ==
    /\ available_rooms' = RoomAvailabilityManager(<<available_rooms>>)[1]
    /\ last' = [op |-> "RoomAvailabilityManager"]
    /\ stdout' = << >>
    /\ UNCHANGED <<observers, booked, pc, arg, rejected, registered>>

\* POST /reservations/ with a ReservationRequest
MakeReservation(request) ==
    LET r == make_reservation(available_rooms, observers, request) IN
    /\ Len(observers) < MaxObservers
    /\ available_rooms' = r.available_rooms
    /\ observers' = r.observers
    /\ last' = [op |-> "POST /reservations", request |-> request,
                raised |-> r.raised, ret |-> r.response]
    /\ stdout' = r.delivered
    /\ booked' = Count(booked, request.room_type, r.booked)
    /\ rejected' = IF r.booked THEN rejected
                   ELSE rejected \cup {request.room_type}
    /\ registered' = Append(registered, User(request.user_name))
    /\ UNCHANGED <<pc, arg>>

-----------------------------------------------------------------------------
(* Worker threads.  make_reservation and check_availability are plain `def`   *)
(* endpoints, which FastAPI runs on a thread pool; book_room holds no lock.   *)
(* A thread runs book_room in two steps: the test of line 26, then the        *)
(* decrement and return of lines 27-28.                                       *)

\* a request arrives: the thread enters book_room(room_type)
Begin(i, room_type) ==
    /\ pc[i] = "idle"
    /\ pc' = [pc EXCEPT ![i] = "line26"]
    /\ arg' = [arg EXCEPT ![i] = room_type]
    /\ UNCHANGED <<available_rooms, observers, last, stdout, booked, rejected, registered>>

\* line 26: if self.check_availability(room_type); line 29 when it fails
Check(i) ==
    /\ pc[i] = "line26"
    /\ pc' = [pc EXCEPT ![i] =
                IF check_availability(available_rooms, arg[i])
                THEN "line27" ELSE "idle"]
    /\ UNCHANGED <<available_rooms, observers, last, stdout, booked, arg, rejected, registered>>

\* lines 27-28: self.available_rooms[room_type] -= 1; return True
Decrement(i) ==
    /\ pc[i] = "line27"
    /\ available_rooms' = [available_rooms EXCEPT ![arg[i]] = @ - 1]
    /\ booked' = Count(booked, arg[i], TRUE)
    /\ pc' = [pc EXCEPT ![i] = "idle"]
    /\ UNCHANGED <<observers, last, stdout, arg, rejected, registered>>

-----------------------------------------------------------------------------
(* Specifications.  Each draws the calls' arguments from its own sets. *)

\* Spec: the ledger under every sequential call sequence, over every room
\* type, known or unknown.  No subscriber is registered.
LedgerServiceLists == {<< >>, <<"breakfast", "airport_transport">>}
LedgerStrategies == {"None", "HighSeasonStrategy"}

Next ==
    \/ \E t \in RoomTypes : CheckAvailability(t)
    \/ \E t \in RoomTypes : BookRoom(t)
    \/ \E t \in RoomTypes : GetAvailability(t)
    \/ \E t \in RoomTypes, s \in LedgerServiceLists, p \in LedgerStrategies :
          CreateReservation("ana", t, s, p)
    \/ NewManager

Spec == Init /\ [][Next]_vars

\* NotifySpec: registrations and reservations, for two users, over a room type
\* that runs out after three bookings and an unknown one.
NotifyTypes == {"deluxe", "penthouse"}

NotifyNext ==
    \/ \E n \in UserNames : AddObserver(n)
    \/ \E t \in NotifyTypes : CheckAvailability(t)
    \/ \E n \in UserNames, t \in NotifyTypes, s \in LedgerServiceLists,
          p \in LedgerStrategies : CreateReservation(n, t, s, p)

NotifySpec == Init /\ [][NotifyNext]_vars

\* PriceSpec: reservations of standard rooms over every service list of at most
\* MaxServices names and every pricing strategy.
PriceTypes == {"standard"}

PriceNext ==
    \E t \in PriceTypes, s \in ServiceLists, p \in Strategies :
        CreateReservation("ana", t, s, p)

PriceSpec == Init /\ [][PriceNext]_vars

\* ConcSpec: NumThreads worker threads, each serving one booking after another.
ConcNext ==
    \/ \E i \in Threads, t \in RoomTypes : Begin(i, t)
    \/ \E i \in Threads : Check(i)
    \/ \E i \in Threads : Decrement(i)

ConcSpec == Init /\ [][ConcNext]_vars

\* ServiceSpec: the reservation service as hotel_system wires it: rooms are
\* booked by create_reservation only, over every room type.
ServiceNext ==
    \/ \E t \in RoomTypes : GetAvailability(t)
    \/ \E t \in RoomTypes, s \in LedgerServiceLists, p \in LedgerStrategies :
          CreateReservation("ana", t, s, p)
    \/ NewManager

ServiceSpec == Init /\ [][ServiceNext]_vars

\* ApiSpec: the two endpoints, POST requests of two users.
StrategyNames == {"high_season", "low_season", "long_stay", "weekend", "None"}
Requests ==
    [user_name : UserNames, room_type : NotifyTypes,
     services : LedgerServiceLists, pricing_strategy : StrategyNames]

ApiNext ==
    \/ \E request \in Requests : MakeReservation(request)
    \/ \E t \in NotifyTypes : GetAvailability(t)

ApiSpec == Init /\ [][ApiNext]_vars

-----------------------------------------------------------------------------
(* Properties *)

IsCall(l, op) == l.op = op

\* the count check_availability reads: a missing entry counts as 0
CountOf(rooms, room_type) == Get(rooms, room_type, 0)

OthersUnchanged(before, after, room_type) ==
    /\ DOMAIN after = DOMAIN before
    /\ \A u \in DOMAIN before \ {room_type} : after[u] = before[u]

\* C1: in every state reachable from {standard: 10, suite: 5, deluxe: 3} by
\* sequential check_availability, book_room and create_reservation calls, for
\* known and unknown room types, the count of every room type is >= 0.
C1_CountsNonNegative ==
    \A t \in DOMAIN available_rooms : available_rooms[t] >= 0

\* C1 witness: the standard rooms ran out and a further reservation of one was
\* turned away.
C1_Witness ==
    /\ IsCall(last, "create_reservation")
    /\ last.room_type = "standard"
    /\ last.raised # << >>
    /\ available_rooms["standard"] = 0

\* C2: book_room(t) at count N > 0 returns true and leaves the count of t at
\* N - 1 and every other count as it was; at count 0 (where N such calls from
\* count N end) it returns false.
C2_BookRoomStep ==
    IsCall(last', "book_room") =>
        LET t == last'.room_type
            N == CountOf(available_rooms, t)
        IN  IF N > 0
            THEN /\ last'.ret = TRUE
                 /\ available_rooms'[t] = N - 1
                 /\ OthersUnchanged(available_rooms, available_rooms', t)
            ELSE last'.ret = FALSE

C2_BookRoomDecrements == [][C2_BookRoomStep]_vars

\* C2 witness: three book_room("deluxe") calls returned true from count 3, the
\* count is 0 and the next call returned false.
C2_Witness ==
    /\ IsCall(last, "book_room")
    /\ last.room_type = "deluxe"
    /\ last.ret = FALSE
    /\ booked["deluxe"] = 3
    /\ available_rooms["deluxe"] = 0

\* C3: for a room type whose count is 0, check_availability returns false,
\* book_room returns false, and the call leaves the whole ledger unchanged.
C3_ZeroCountStep ==
    (/\ last'.op \in {"check_availability", "book_room"}
     /\ CountOf(available_rooms, last'.room_type) = 0)
        => /\ last'.ret = FALSE
           /\ available_rooms' = available_rooms

C3_ZeroCountRefuses == [][C3_ZeroCountStep]_vars

\* C3 witness: book_room("suite") was refused at count 0.
C3_Witness ==
    /\ IsCall(last, "book_room")
    /\ last.room_type = "suite"
    /\ last.ret = FALSE
    /\ available_rooms["suite"] = 0

\* C6: for a room type outside {standard, suite, deluxe}, in every reachable
\* state, check_availability (the method and the GET endpoint) returns false,
\* create_reservation is rejected with the no-availability error, and the
\* ledger is unchanged and gains no entry.
C6_UnknownTypeStep ==
    (/\ last'.op \in {"check_availability", "book_room",
                      "GET /availability", "create_reservation"}
     /\ last'.room_type \notin KnownTypes)
        => /\ IsCall(last', "check_availability") => last'.ret = FALSE
           /\ IsCall(last', "book_room") => last'.ret = FALSE
           /\ IsCall(last', "GET /availability") =>
                last'.ret = [room_type |-> last'.room_type, available |-> FALSE]
           /\ IsCall(last', "create_reservation") =>
                /\ last'.raised # << >>
                /\ last'.raised.class = "HTTPException"
                /\ last'.raised.status_code = 400
                /\ last'.ret = << >>
           /\ available_rooms' = available_rooms
           /\ DOMAIN available_rooms' = KnownTypes

C6_UnknownTypeRejected == [][C6_UnknownTypeStep]_vars

\* C6 witness: a penthouse reservation was rejected after some rooms had been
\* booked.
C6_Witness ==
    /\ IsCall(last, "create_reservation")
    /\ last.room_type = "penthouse"
    /\ last.raised # << >>
    /\ booked["standard"] > 0
    /\ available_rooms["standard"] < InitialRooms["standard"]

\* C4: the check and the decrement of book_room are one atomic unit per room
\* type: with requests interleaved between line 26 and line 27, no more
\* bookings of a type succeed than it had rooms and no count goes negative.
C4_NoOverbooking ==
    \A t \in KnownTypes :
        /\ booked[t] <= InitialRooms[t]
        /\ available_rooms[t] >= 0

\* C5: create_reservation for a room type with no availability raises the
\* no-availability error naming the requested room type; no room is built, no
\* subscriber is notified, and the ledger is as it was before the call.
C5_RejectedStep ==
    (/\ IsCall(last', "create_reservation")
     /\ ~(CountOf(available_rooms, last'.room_type) > 0))
        => /\ last'.raised # << >>
           /\ last'.raised.class = "HTTPException"
           /\ last'.raised.status_code = 400
           /\ \E i \in DOMAIN last'.raised.detail :
                last'.raised.detail[i] = last'.room_type
           /\ last'.ret = << >>
           /\ last'.room = << >>
           /\ stdout' = << >>
           /\ available_rooms' = available_rooms

C5_NoAvailabilityRejects == [][C5_RejectedStep]_vars

\* C5 witness: with two subscribers registered, a deluxe reservation was
\* rejected after the three deluxe rooms had been booked.
C5_Witness ==
    /\ IsCall(last, "create_reservation")
    /\ last.room_type = "deluxe"
    /\ last.raised # << >>
    /\ available_rooms["deluxe"] = 0
    /\ Len(observers) = 2

Occurrences(services, name) ==
    Cardinality({i \in DOMAIN services : services[i] = name})

ChargeSum(services) ==
    50000 * Occurrences(services, "breakfast")
        + 70000 * Occurrences(services, "airport_transport")

\* the multiplier of a strategy, in tenths
Tenths(pricing_strategy) ==
    CASE pricing_strategy = "HighSeasonStrategy"       -> 15
      [] pricing_strategy = "LowSeasonStrategy"        -> 8
      [] pricing_strategy = "LongStayDiscountStrategy" -> 9
      [] pricing_strategy = "None"                     -> 10

Succeeded(l) == IsCall(l, "create_reservation") /\ l.raised = << >>

\* C7: the final price of a reservation is m * (300000 + the service charges
\* applied), m = 1.5 (high season), 0.8 (low season), 0.9 (long stay), 1 (no
\* strategy): the strategy multiplies the decorated total once. Breakfast in
\* high season costs 525000, a bare room on a long stay 270000.
C7_StrategyOnTotal ==
    Succeeded(last) =>
        /\ 10 * last.ret[2] =
              Tenths(last.pricing_strategy) * (300000 + ChargeSum(last.services))
        /\ (last.services = <<"breakfast">>
              /\ last.pricing_strategy = "HighSeasonStrategy")
                => last.ret[2] = 525000
        /\ (last.services = << >>
              /\ last.pricing_strategy = "LongStayDiscountStrategy")
                => last.ret[2] = 270000

\* C7 witness: breakfast plus airport transport in low season, priced 336000.
C7_Witness ==
    /\ Succeeded(last)
    /\ last.services = <<"airport_transport", "breakfast">>
    /\ last.pricing_strategy = "LowSeasonStrategy"
    /\ last.ret[2] = 336000

IsDistinct(services) ==
    \A i, j \in DOMAIN services : i # j => services[i] # services[j]

Listed(services, name) == \E i \in DOMAIN services : services[i] = name

Suffix(name) ==
    CASE name = "breakfast"         -> <<", desayuno incluido">>
      [] name = "airport_transport" -> <<", transporte al aeropuerto">>
      [] OTHER                      -> << >>

RECURSIVE Suffixes(_)
Suffixes(services) ==
    IF services = << >> THEN << >>
    ELSE Suffix(Head(services)) \o Suffixes(Tail(services))

EndsWith(text, tail) ==
    /\ Len(text) >= Len(tail)
    /\ SubSeq(text, Len(text) - Len(tail) + 1, Len(text)) = tail

RECURSIVE Layers(_)
\* the decoration layers of a reservation, innermost first
Layers(r) ==
    IF r.class = "Reservation" THEN << >>
    ELSE Append(Layers(r.reservation), r.class)

LayerOf(name) ==
    IF name = "breakfast" THEN "BreakfastDecorator" ELSE "AirportTransportDecorator"

KnownOnly(services) == SelectSeq(services, LAMBDA x : x \in KnownServices)

\* C8: for a service list of distinct names the reservation costs 300000, plus
\* 50000 if breakfast is listed, plus 70000 if airport_transport is listed, and
\* its layers and description suffixes are in the order listed;
\* [breakfast, airport_transport] costs 420000 and its description ends
\* ", desayuno incluido, transporte al aeropuerto".
C8_DecorationOrder ==
    (Succeeded(last) /\ IsDistinct(last.services)) =>
        LET r == last.ret[1]
            known == KnownOnly(last.services)
        IN  /\ cost(r) = 300000
                  + (IF Listed(last.services, "breakfast") THEN 50000 ELSE 0)
                  + (IF Listed(last.services, "airport_transport") THEN 70000 ELSE 0)
            /\ Layers(r) = [i \in 1..Len(known) |-> LayerOf(known[i])]
            /\ EndsWith(description(r), Suffixes(last.services))
            /\ last.services = <<"breakfast", "airport_transport">> =>
                  /\ cost(r) = 420000
                  /\ EndsWith(description(r),
                        <<", desayuno incluido", ", transporte al aeropuerto">>)

\* C8 witness: [breakfast, airport_transport] was reserved.
C8_Witness ==
    /\ Succeeded(last)
    /\ last.services = <<"breakfast", "airport_transport">>
    /\ cost(last.ret[1]) = 420000

\* C9: a successful create_reservation delivers the confirmation (requester,
\* description and final price of the reservation it returns) to every
\* registered subscriber once, in registration order, the room being booked in
\* the same call; with no subscriber nothing is delivered and the call still
\* returns.
C9_NotifyStep ==
    (/\ IsCall(last', "create_reservation")
     /\ CountOf(available_rooms, last'.room_type) > 0)
        => /\ last'.raised = << >>
           /\ available_rooms'[last'.room_type] =
                available_rooms[last'.room_type] - 1
           /\ Len(stdout') = Len(observers)
           /\ \A i \in 1..Len(observers) :
                /\ stdout'[i].to = observers[i]
                /\ stdout'[i].line =
                     <<"Notificación para ", observers[i].name, ": ",
                       "Reserva confirmada para ", last'.user.name, ": ">>
                       \o description(last'.ret[1])
                       \o <<". Precio: ", last'.ret[2], " COP.">>
           /\ observers = << >> => stdout' = << >>

C9_NotifiesAllInOrder == [][C9_NotifyStep]_vars

\* C9 witness: two different subscribers were notified of a decorated
\* reservation.
C9_Witness ==
    /\ Succeeded(last)
    /\ last.services # << >>
    /\ Len(observers) = 2
    /\ observers[1] # observers[2]
    /\ Len(stdout) = 2

\* C10: unknown service names are ignored: a service list with unknown names
\* inserted anywhere, any number of times, gives a reservation of the same
\* cost, description and final price as the list without them, and no error.
C10_UnknownStep ==
    IsCall(last', "create_reservation") =>
        LET alone == create_reservation(available_rooms, observers, last'.user,
                        last'.room_type, KnownOnly(last'.services),
                        last'.pricing_strategy)
        IN  /\ last'.raised = alone.raised
            /\ alone.raised = << >> =>
                /\ cost(last'.ret[1]) = cost(alone.reservation)
                /\ description(last'.ret[1]) = description(alone.reservation)
                /\ last'.ret[2] = alone.final_price

C10_UnknownServicesIgnored == [][C10_UnknownStep]_vars

\* C10 witness: a reservation whose list holds the unknown name before a
\* known one.
C10_Witness ==
    /\ Succeeded(last)
    /\ Len(last.services) = 2
    /\ last.services[1] = "spa"
    /\ last.services[2] = "breakfast"
    /\ last.pricing_strategy = "HighSeasonStrategy"

\* C11: a successful create_reservation, whatever its services and strategy,
\* decreases the count of the requested room type by exactly 1 and leaves every
\* other count unchanged; a standard room without services or strategy costs
\* 300000.
C11_ReservationStep ==
    Succeeded(last') =>
        LET t == last'.room_type IN
        /\ available_rooms'[t] = available_rooms[t] - 1
        /\ OthersUnchanged(available_rooms, available_rooms', t)
        /\ (t = "standard" /\ last'.services = << >>
                /\ last'.pricing_strategy = "None")
              => last'.ret[2] = 300000

C11_ReservationDecrementsOne == [][C11_ReservationStep]_vars

\* C11 witness: the first reservation, a bare standard room, priced 300000 and
\* leaving 9 standard rooms.
C11_Witness ==
    /\ Succeeded(last)
    /\ last.room_type = "standard"
    /\ last.services = << >>
    /\ last.pricing_strategy = "None"
    /\ last.ret[2] = 300000
    /\ available_rooms = [InitialRooms EXCEPT !["standard"] = 9]

\* C12: the subscriber collection is append-only: after any sequence of
\* add_observer, create_reservation (with its notify_all) and
\* check_availability calls it equals the sequence of add_observer arguments
\* in call order, duplicates included.
C12_ObserversAppendOnly ==
    observers = registered

\* C12 witness: the same subscriber registered twice, both entries kept and
\* both notified by a reservation.
C12_Witness ==
    /\ Succeeded(last)
    /\ Len(observers) = 3
    /\ observers[1] = observers[3]
    /\ observers[1] # observers[2]
    /\ Len(stdout) = 3

\* C13: a service charge is applied at most once per service name, also when
\* the list repeats a name: the reservation has at most one breakfast layer
\* and at most one airport_transport layer, and costs at most 420000.
C13_ChargeAtMostOnce ==
    Succeeded(last) =>
        LET r == last.ret[1] IN
        /\ Occurrences(Layers(r), "BreakfastDecorator") <= 1
        /\ Occurrences(Layers(r), "AirportTransportDecorator") <= 1
        /\ cost(r) <= 420000

\* C14: the base Reservation built from a Room costs 300000 and its
\* description is the room's description, without suffix, for each of the
\* three room types.
C14_BaseReservation ==
    (Succeeded(last) /\ last.services = << >>) =>
        /\ last.ret[1].class = "Reservation"
        /\ cost(last.ret[1]) = 300000
        /\ description(last.ret[1]) = room_description(last.room[1])

\* C15: only a successful booking changes the ledger: check_availability, GET
\* /availability and a further RoomAvailabilityManager() leave every count as
\* it is, and no count ever increases.
C15_LedgerStep ==
    /\ DOMAIN available_rooms' = DOMAIN available_rooms
    /\ \A t \in DOMAIN available_rooms : available_rooms'[t] <= available_rooms[t]
    /\ last'.op \in {"check_availability", "GET /availability",
                     "RoomAvailabilityManager"}
          => available_rooms' = available_rooms
    /\ available_rooms' # available_rooms
          => \/ IsCall(last', "book_room") /\ last'.ret = TRUE
             \/ Succeeded(last')

C15_OnlyBookingMutates == [][C15_LedgerStep]_vars

\* C15 witness: RoomAvailabilityManager() was called again after the deluxe
\* rooms had run out, and they are still out.
C15_Witness ==
    /\ IsCall(last, "RoomAvailabilityManager")
    /\ available_rooms["deluxe"] = 0
    /\ available_rooms["suite"] < InitialRooms["suite"]

\* C16: a booked room is never released: the successful reservations of a
\* room type number its initial count minus its current count, so at most 10
\* standard, 5 suite and 3 deluxe, and after a rejection of a room type no
\* reservation of that type succeeds.
C16_NeverReleased ==
    /\ \A t \in KnownTypes :
        /\ booked[t] = InitialRooms[t] - available_rooms[t]
        /\ booked[t] <= InitialRooms[t]
    /\ booked["standard"] <= 10 /\ booked["suite"] <= 5 /\ booked["deluxe"] <= 3
    /\ Succeeded(last) => last.room_type \notin rejected

\* C16 witness: ten standard reservations succeeded and a further one was
\* rejected, a new RoomAvailabilityManager() having been made since.
C16_Witness ==
    /\ IsCall(last, "RoomAvailabilityManager")
    /\ booked["standard"] = 10
    /\ "standard" \in rejected

\* C17: inside create_reservation the room factory never fails: book_room
\* returns true for known room types only, so create_room's ValueError branch
\* is not reached and a decrement is always followed by a built room.
C17_FactoryStep ==
    /\ (IsCall(last', "book_room") /\ last'.ret = TRUE)
          => last'.room_type \in KnownTypes
    /\ IsCall(last', "create_reservation") =>
          /\ last'.raised # << >> => last'.raised.class = "HTTPException"
          /\ available_rooms' # available_rooms =>
                /\ last'.raised = << >>
                /\ last'.room_type \in KnownTypes
                /\ Len(last'.room) = 1
                /\ last'.room[1].class \in {"StandardRoom", "SuiteRoom", "DeluxeRoom"}

C17_FactoryNeverFails == [][C17_FactoryStep]_vars

\* C17 witness: a suite was reserved and its room built.
C17_Witness ==
    /\ Succeeded(last)
    /\ last.room = <<[class |-> "SuiteRoom"]>>
    /\ available_rooms["suite"] = InitialRooms["suite"] - 1

\* C18: POST /reservations registers the requesting user before booking and
\* never unregisters: after the k-th request, successful or rejected, the hub
\* holds the k users in request order; a successful k-th request delivers k
\* notifications, one per request 1..k, the requester's last.
C18_PostRegisters ==
    /\ Len(observers) = Len(registered)
    /\ \A i \in 1..Len(registered) : observers[i].name = registered[i].name
    /\ IsCall(last, "POST /reservations") =>
          LET k == Len(registered) IN
          /\ k >= 1
          /\ observers[k].name = last.request.user_name
          /\ IF last.raised = << >>
             THEN /\ Len(stdout) = k
                  /\ \A i \in 1..k : stdout[i].to.name = registered[i].name
                  /\ stdout[k].to.name = last.request.user_name
             ELSE stdout = << >>

\* C18 witness: the third request, by the user of the first, was rejected and
\* its user is registered third.
C18_Witness ==
    /\ IsCall(last, "POST /reservations")
    /\ last.raised # << >>
    /\ Len(observers) = 3
    /\ observers[1] # observers[2]
    /\ observers[3].name = last.request.user_name
    /\ available_rooms["deluxe"] = 1

====
